---- MODULE Spec2Model ----
(***************************************************************************)
(* Queue_TS (src/queue_ts.hpp) and Stack_TS (src/stack_ts.hpp): two        *)
(* lock-free containers with hazard-pointer reclamation.                   *)
(*                                                                         *)
(* Every shared-memory access of an operation is one step of the calling   *)
(* thread.  The heap is a finite set of node addresses; delete returns an  *)
(* address to the allocator, which may hand it out again.                  *)
(***************************************************************************)
EXTENDS Integers, Sequences, FiniteSets, TLC

\* ---------------------------------------------------------------- bounds
NumThreads == 2
NumAddr    == 4
MaxSlots   == 2
MaxGarbage == 1
QMaxPush   == 2
QMaxPop    == 2
SMaxPush   == 3
SMaxPop    == 3
SeqMaxPush == 3
SeqMaxPop  == 4
QFairMaxPop  == 3
SFairMaxPush == 2
MovMaxPush   == 2
MovMaxPop    == 2
StepCap    == 12

NULL == 0

Threads == 1..NumThreads
Addr    == 1..NumAddr
Ptr     == Addr \cup {NULL}
Slots   == 0..(MaxSlots - 1)

VARIABLES
    cfg,            \* construction-time configuration and the run's discipline
    mem,            \* the heap: one cell per node address
    head, tail,     \* std::atomic<node*> head, tail
    garbage,        \* std::atomic<node*> garbage
    garbage_size,   \* std::atomic_size_t garbage_size (queue)
    hazard,         \* the hazard table: slot -> (owner, pointer)
    hazard_arr,     \* hazard_ptr *hazard_arr: which array the container points to
    dst,            \* a second Stack_TS object, the target of a move
    pc,             \* each thread's position
    loc,            \* each thread's local variables
    gh              \* history (instrumentation) variables

vars == <<cfg, mem, head, tail, garbage, garbage_size, hazard, hazard_arr, dst,
          pc, loc, gh>>

\* ------------------------------------------------------------------ heap
FreeCell  == [live |-> FALSE, taken |-> FALSE, data |-> NULL, next |-> NULL]

\* node(): taken ATOMIC_FLAG_INIT, data{}, next{}
QNode == [live |-> TRUE, taken |-> FALSE, data |-> NULL, next |-> NULL]

\* node(T arg): next{}, data{make_shared(arg)}
SNode(v) == [live |-> TRUE, taken |-> FALSE, data |-> v, next |-> NULL]

FreeAddrs(m) == {a \in Addr : ~m[a].live}

\* operator new: any free address may come back.  Free addresses that no
\* pointer anywhere refers to are interchangeable, and the lowest stands for
\* them all; a free address some stale pointer still refers to is a choice of
\* its own.
Referenced(m) ==
    {head, tail, garbage, dst.head, dst.garbage}
    \cup {hazard[s].pointer : s \in Slots}
    \cup UNION {{loc[t].new_node, loc[t].old_tail, loc[t].old_head, loc[t].nx,
                 loc[t].g, loc[t].tmp} : t \in Threads}
    \cup {m[a].next : a \in Addr}

AllocChoices(m) ==
    LET free  == FreeAddrs(m)
        stale == free \cap Referenced(m)
        fresh == free \ stale
    IN  stale \cup {a \in fresh : \A b \in fresh : a <= b}

\* The number of push and of pop calls a run makes.
PushBound == cfg.pushes
PopBound  == cfg.pops

\* A read through a pointer to a deleted node is undefined: any value of the
\* field's type may come back.
ReadTaken(a) == IF mem[a].live THEN {mem[a].taken} ELSE BOOLEAN
ReadData(a)  == IF mem[a].live THEN {mem[a].data} ELSE 0..gh.npush
ReadNext(a)  == IF mem[a].live THEN {mem[a].next} ELSE Ptr

\* A write through a pointer to a deleted node lands in memory the allocator
\* owns; the next constructor at that address overwrites it.
WrTaken(m, a, v) == IF m[a].live THEN [m EXCEPT ![a].taken = v] ELSE m
WrData(m, a, v)  == IF m[a].live THEN [m EXCEPT ![a].data = v] ELSE m
WrNext(m, a, v)  == IF m[a].live THEN [m EXCEPT ![a].next = v] ELSE m

Uaf(a) == IF mem[a].live THEN {} ELSE {"uaf"}

\* ~node(): if(next) delete next; then the payload (queue).  The chain of
\* addresses a delete of node a destroys, in order; it ends at a null next, or
\* at a cell that is not a live node (a second delete of it).
RECURSIVE Chain(_, _, _)
Chain(m, a, seen) ==
    IF a = NULL THEN <<>>
    ELSE IF ~m[a].live \/ a \in seen THEN <<a>>
    ELSE <<a>> \o Chain(m, m[a].next, seen \cup {a})

SeqSet(s) == {s[i] : i \in 1..Len(s)}

\* The addresses a delete of a frees, and whether it deleted a dead cell.
DelFreed(m, a)  == {x \in SeqSet(Chain(m, a, {})) : m[x].live}
DelDouble(m, a) == Len(Chain(m, a, {})) > Cardinality(DelFreed(m, a))
DelPayloads(m, a) == {m[x].data : x \in DelFreed(m, a)} \ {NULL}
DelMem(m, a)    == [x \in Addr |-> IF x \in DelFreed(m, a) THEN FreeCell ELSE m[x]]

\* ------------------------------------------------------------- hazard table
HazardInit == [s \in Slots |-> [owner |-> 0, pointer |-> NULL]]

\* The slots whose protected pointer is one of the addresses in S.
Protecting(S) == {s \in Slots : s < cfg.hsize /\ hazard[s].pointer \in S}

\* The arrays a hazard_arr pointer may refer to: the one the container's
\* constructor allocated, the one the second object's constructor allocated.
OwnArr == 1
DstArr == 2

\* The second object before it is constructed.
NoObject == [built |-> FALSE, head |-> NULL, garbage |-> NULL,
             hazard_arr |-> NULL, hazard_max_size |-> 0]

\* ------------------------------------------------------------------ locals
LocInit == [new_node |-> NULL, val |-> 0, old_tail |-> NULL, slot |-> 0,
            old_head |-> NULL, taken |-> FALSE, nx |-> NULL, res |-> 0,
            i |-> 0, g |-> NULL, tmp |-> NULL, pidx |-> 0, solo |-> FALSE,
            onEmpty |-> FALSE, steps |-> 0]

GhInit == [npush |-> 0, npop |-> 0,
           claimOrder |-> <<>>, pubOrder |-> <<>>, popOrder |-> <<>>,
           calls |-> <<>>, rets |-> <<>>,
           ub |-> {}, hazFree |-> FALSE, drained |-> FALSE,
           payFreed |-> {}, dblFree |-> FALSE, gbOver |-> FALSE,
           emptyRet |-> TRUE, leak |-> FALSE,
           moved |-> "no", pre |-> <<>>,
           popUaf |-> FALSE, stalePush |-> FALSE,
           ref |-> <<>>, claimed |-> {}, reclaimed |-> FALSE,
           unlinked |-> {}, strayPop |-> FALSE,
           deferred |-> {}]

Idle(t)  == pc[t] = "idle"
AllIdle  == \A t \in Threads : Idle(t)
Running  == \A t \in Threads : pc[t] \notin {"crashed", "destroyed"}

Tick(l)  == IF cfg.seq /\ l.steps < StepCap THEN [l EXCEPT !.steps = @ + 1] ELSE l

\* std::size_t arithmetic: the counter wraps at SizeMod (the width is cut to
\* what the checker's integers hold; only 0 - 1 and the comparison with
\* garbage_max_size are ever taken).
SizeMod == 2^30
SizeInc(x) == (x + 1) % SizeMod
SizeDec(x) == IF x = 0 THEN SizeMod - 1 ELSE x - 1

\* Number of nodes on the list that starts at pointer p.
ListLen(m, p) == Cardinality(DelFreed(m, p))

\* Node a is allocated and on the live list: reachable from head through next.
Linked(a) == mem[a].live /\ a \in SeqSet(Chain(mem, head, {}))

\* History of a successful payload claim on node a: whether the payload of
\* this node was claimed before, since the node was allocated.
GhClaim(g, a, v) ==
    [g EXCEPT !.claimOrder = Append(@, v),
              !.reclaimed = @ \/ (mem[a].live /\ a \in g.claimed),
              !.claimed = @ \cup {a}]

\* History of a step of push that claims, links behind or replaces old_tail a.
GhPushTouch(g, a) ==
    [g EXCEPT !.stalePush = @ \/ ~Linked(a), !.ub = @ \cup Uaf(a)]

\* History of a read of old_head a by Stack_TS::pop: whether the node had
\* been deleted (and nothing undefined had happened before).
GhPopDeref(g, a) ==
    [g EXCEPT !.popUaf = @ \/ (~mem[a].live /\ g.ub = {}), !.ub = @ \cup Uaf(a)]

\* -------------------------------------------------------- step bookkeeping
Goto(t, p, l) == /\ pc'  = [pc EXCEPT ![t] = p]
                 /\ loc' = [loc EXCEPT ![t] = Tick(l)]

\* An operation starts: no other operation is solo any more.
Enter(t, p, l) ==
    /\ pc'  = [pc EXCEPT ![t] = p]
    /\ loc' = [u \in Threads |-> IF u = t THEN Tick(l)
                                 ELSE [loc[u] EXCEPT !.solo = FALSE]]

Return(t) == /\ pc'  = [pc EXCEPT ![t] = "idle"]
             /\ loc' = [loc EXCEPT ![t] = LocInit]

Crash(t, why) ==
    /\ pc' = [pc EXCEPT ![t] = "crashed"]
    /\ gh' = [gh EXCEPT !.ub = @ \cup {why}]
    /\ UNCHANGED <<dst, hazard_arr, cfg, mem, head, tail, garbage, garbage_size, hazard, loc>>

\* Thread u is inside push_to_garbage, is_garbage_full or collect_garbage.
Reclaiming(u) == pc[u] \in {"po_gb1", "po_gb2", "po_gb3", "po_full", "cg_xchg",
                            "cg_loop", "cg_next", "cg_haz", "cg_del", "cg_gb1",
                            "cg_gb2", "cg_gb3"}

\* History at the return of a pop with result r (NULL: the empty result), the
\* heap being m and the garbage pointer gp at that moment.
GhPopRet(g, t, r, m, gp) ==
    [g EXCEPT
       !.calls   = IF cfg.seq THEN Append(@, <<"pop", 0>>) ELSE @,
       !.rets    = IF cfg.seq THEN Append(@, r) ELSE @,
       !.drained = @ \/ (r = NULL /\ loc[t].solo),
       !.gbOver  = @ \/ (cfg.kind = "queue" /\ ListLen(m, gp) > cfg.gmax
                          /\ \A u \in Threads \ {t} : ~Reclaiming(u)),
       !.emptyRet = @ /\ (loc[t].onEmpty => r = NULL)]

\* History at a delete of node a in heap m.
GhDelete(g, m, a) ==
    [g EXCEPT
       !.dblFree  = @ \/ DelDouble(m, a) \/ (DelPayloads(m, a) \cap g.payFreed # {}),
       !.ub       = IF DelDouble(m, a) THEN @ \cup {"double-free"} ELSE @,
       !.payFreed = @ \cup DelPayloads(m, a),
       !.deferred = @ \ DelFreed(m, a)]

\* ===================================================================== queue
\* Queue_TS::Queue_TS, for a run of at most the given numbers of calls
QStart(seq, slots, pushes, pops) ==
    /\ cfg \in [kind : {"queue"}, seq : {seq}, hsize : slots, gmax : 0..MaxGarbage,
                pushes : {pushes}, pops : {pops}]
    /\ mem = [a \in Addr |-> IF a = 1 THEN QNode ELSE FreeCell]
    /\ head = 1
    /\ tail = 1
    /\ garbage = NULL
    /\ garbage_size = 0
    /\ hazard = HazardInit
    /\ hazard_arr = OwnArr
    /\ dst = NoObject
    /\ pc = [t \in Threads |-> "idle"]
    /\ loc = [t \in Threads |-> LocInit]
    /\ gh = GhInit

QInit(seq, slots) ==
    QStart(seq, slots, IF seq THEN SeqMaxPush ELSE QMaxPush,
                       IF seq THEN SeqMaxPop ELSE QMaxPop)

\* push, lines 122-123: box the value, allocate the new empty node
QPushStart(t) ==
    /\ Running /\ Idle(t) /\ cfg.kind = "queue"
    /\ cfg.seq => AllIdle
    /\ gh.npush < PushBound
    /\ \E a \in AllocChoices(mem) :
        /\ mem' = [mem EXCEPT ![a] = QNode]
        /\ Enter(t, "pu_load", [LocInit EXCEPT !.new_node = a, !.val = gh.npush + 1])
        /\ gh' = [gh EXCEPT !.npush = @ + 1, !.drained = FALSE,
                            !.claimed = @ \ {a}, !.unlinked = @ \ {a}]
    /\ UNCHANGED <<dst, hazard_arr, cfg, head, tail, garbage, garbage_size, hazard>>

\* line 130: old_tail = tail.load()
PuLoad(t) ==
    /\ Running /\ pc[t] = "pu_load"
    /\ Goto(t, "pu_cas", [loc[t] EXCEPT !.old_tail = tail])
    /\ UNCHANGED <<dst, hazard_arr, cfg, mem, head, tail, garbage, garbage_size, hazard, gh>>

\* line 132: old_tail->data.compare_exchange_strong(nullptr, new_data)
PuCas(t) ==
    /\ Running /\ pc[t] = "pu_cas"
    /\ LET a == loc[t].old_tail IN
       \E cur \in ReadData(a) :
          IF cur = NULL
          THEN /\ mem' = WrData(mem, a, loc[t].val)
               /\ gh' = GhClaim(GhPushTouch(gh, a), a, loc[t].val)
               /\ Goto(t, "pu_link", loc[t])
          ELSE /\ mem' = mem
               /\ gh' = [gh EXCEPT !.ub = @ \cup Uaf(a)]
               /\ Goto(t, "pu_load", loc[t])
    /\ UNCHANGED <<dst, hazard_arr, cfg, head, tail, garbage, garbage_size, hazard>>

\* line 134: old_tail->next = new_node
PuLink(t) ==
    /\ Running /\ pc[t] = "pu_link"
    /\ mem' = WrNext(mem, loc[t].old_tail, loc[t].new_node)
    /\ gh' = GhPushTouch(gh, loc[t].old_tail)
    /\ Goto(t, "pu_store", loc[t])
    /\ UNCHANGED <<dst, hazard_arr, cfg, head, tail, garbage, garbage_size, hazard>>

\* line 135: tail.store(new_node); push returns
PuStore(t) ==
    /\ Running /\ pc[t] = "pu_store"
    /\ tail' = loc[t].new_node
    /\ gh' = [gh EXCEPT !.pubOrder = Append(@, loc[t].val),
                        !.calls = IF cfg.seq THEN Append(@, <<"push", loc[t].val>>) ELSE @,
                        !.stalePush = @ \/ ~Linked(loc[t].old_tail)]
    /\ Return(t)
    /\ UNCHANGED <<dst, hazard_arr, cfg, mem, head, garbage, garbage_size, hazard>>

\* pop, lines 224-225
QPopStart(t) ==
    /\ Running /\ Idle(t) /\ cfg.kind = "queue"
    /\ cfg.seq => AllIdle
    /\ gh.npop < PopBound
    /\ Enter(t, "po_slot", [LocInit EXCEPT
                 !.solo = \A u \in Threads \ {t} : Idle(u),
                 !.onEmpty = cfg.seq /\ head = tail])
    /\ gh' = [gh EXCEPT !.npop = @ + 1]
    /\ UNCHANGED <<dst, hazard_arr, cfg, mem, head, tail, garbage, garbage_size, hazard>>

\* load_head_set_hazard, lines 144-151: hazard_holder[slot].taken.test_and_set().
\* With a table of no slots the access is past the end of the array: the flag
\* read is arbitrary, and the slot advance divides by zero.
PoSlot(t) ==
    /\ Running /\ pc[t] = "po_slot"
    /\ LET s == loc[t].slot IN
       IF cfg.hsize = 0
       THEN \E tk \in BOOLEAN :
              IF tk THEN Crash(t, "div-by-zero")
              ELSE /\ hazard' = [hazard EXCEPT ![s].owner = 1]
                   /\ gh' = [gh EXCEPT !.ub = @ \cup {"out-of-bounds"}]
                   /\ Goto(t, "po_lhead", loc[t])
                   /\ UNCHANGED <<dst, hazard_arr, cfg, mem, head, tail, garbage, garbage_size>>
       ELSE /\ IF hazard[s].owner = 0
               THEN /\ hazard' = [hazard EXCEPT ![s].owner = 1]
                    /\ Goto(t, "po_lhead", loc[t])
               ELSE /\ hazard' = hazard
                    /\ Goto(t, "po_slot", [loc[t] EXCEPT !.slot = (s + 1) % cfg.hsize])
            /\ UNCHANGED <<dst, hazard_arr, cfg, mem, head, tail, garbage, garbage_size, gh>>

\* line 158: old_head = head.load()
PoLhead(t) ==
    /\ Running /\ pc[t] = "po_lhead"
    /\ Goto(t, "po_shaz", [loc[t] EXCEPT !.old_head = head])
    /\ UNCHANGED <<dst, hazard_arr, cfg, mem, head, tail, garbage, garbage_size, hazard, gh>>

\* line 159: hazard_holder[slot].pointer.store(old_head)
PoShaz(t) ==
    /\ Running /\ pc[t] = "po_shaz"
    /\ hazard' = [hazard EXCEPT ![loc[t].slot].pointer = loc[t].old_head]
    /\ Goto(t, "po_valid", loc[t])
    /\ UNCHANGED <<dst, hazard_arr, cfg, mem, head, tail, garbage, garbage_size, gh>>

\* (mutant) the re-validation loop repeats while head is unchanged
PoValidInverted(t) ==
    /\ Running /\ pc[t] = "po_valid"
    /\ Goto(t, IF loc[t].old_head # head THEN "po_tas" ELSE "po_lhead", loc[t])
    /\ UNCHANGED <<dst, hazard_arr, cfg, mem, head, tail, garbage, garbage_size, hazard, gh>>

\* line 161: while(old_head != head.load())
PoValid(t) ==
    /\ Running /\ pc[t] = "po_valid"
    /\ Goto(t, IF loc[t].old_head = head THEN "po_tas" ELSE "po_lhead", loc[t])
    /\ UNCHANGED <<dst, hazard_arr, cfg, mem, head, tail, garbage, garbage_size, hazard, gh>>

\* (mutant) the result of test_and_set is ignored
PoTasBlind(t) ==
    /\ Running /\ pc[t] = "po_tas"
    /\ LET a == loc[t].old_head IN
       IF a = NULL THEN Crash(t, "null-deref")
       ELSE /\ Goto(t, "po_clr1", [loc[t] EXCEPT !.taken = FALSE])
            /\ gh' = [gh EXCEPT !.ub = @ \cup Uaf(a),
                                !.strayPop = @ \/ head # a]
            /\ mem' = WrTaken(mem, a, TRUE)
            /\ UNCHANGED <<dst, hazard_arr, cfg, head, tail, garbage, garbage_size, hazard>>

\* line 230: bool taken = old_head->taken.test_and_set()
PoTas(t) ==
    /\ Running /\ pc[t] = "po_tas"
    /\ LET a == loc[t].old_head IN
       IF a = NULL THEN Crash(t, "null-deref")
       ELSE /\ \E tk \in ReadTaken(a) :
                 /\ Goto(t, "po_clr1", [loc[t] EXCEPT !.taken = tk])
                 /\ gh' = [gh EXCEPT !.ub = @ \cup Uaf(a),
                                     !.strayPop = @ \/ (~tk /\ head # a)]
            /\ mem' = WrTaken(mem, a, TRUE)
            /\ UNCHANGED <<dst, hazard_arr, cfg, head, tail, garbage, garbage_size, hazard>>

\* Variant of clear_hazard without the pointer.store(nullptr) of line 169.
PoClr1Skip(t) ==
    /\ Running /\ pc[t] = "po_clr1"
    /\ Goto(t, "po_clr2", loc[t])
    /\ UNCHANGED <<dst, hazard_arr, cfg, mem, head, tail, garbage, garbage_size, hazard, gh>>

\* clear_hazard, line 169: hazard_holder[slot].pointer.store(nullptr)
PoClr1(t) ==
    /\ Running /\ pc[t] = "po_clr1"
    /\ hazard' = [hazard EXCEPT ![loc[t].slot].pointer = NULL]
    /\ Goto(t, "po_clr2", loc[t])
    /\ UNCHANGED <<dst, hazard_arr, cfg, mem, head, tail, garbage, garbage_size, gh>>

\* Variant of clear_hazard that leaves the slot's flag set when the claim
\* attempt failed and pop goes round its loop again.
PoClr2Keep(t) ==
    /\ Running /\ pc[t] = "po_clr2"
    /\ hazard' = [hazard EXCEPT ![loc[t].slot].owner = IF loc[t].taken THEN @ ELSE 0]
    /\ IF loc[t].taken
       THEN Goto(t, "po_slot", [loc[t] EXCEPT !.slot = 0])
       ELSE Goto(t, "po_tail", loc[t])
    /\ UNCHANGED <<dst, hazard_arr, cfg, mem, head, tail, garbage, garbage_size, gh>>

\* clear_hazard, line 170: hazard_holder[slot].taken.clear(); then lines 237-238
PoClr2(t) ==
    /\ Running /\ pc[t] = "po_clr2"
    /\ hazard' = [hazard EXCEPT ![loc[t].slot].owner = 0]
    /\ IF loc[t].taken
       THEN Goto(t, "po_slot", [loc[t] EXCEPT !.slot = 0])
       ELSE Goto(t, "po_tail", loc[t])
    /\ UNCHANGED <<dst, hazard_arr, cfg, mem, head, tail, garbage, garbage_size, gh>>

\* (mutant) the emptiness test compares with head instead of tail
PoTailHead(t) ==
    /\ Running /\ pc[t] = "po_tail"
    /\ Goto(t, IF loc[t].old_head = head THEN "po_untake" ELSE "po_rnext", loc[t])
    /\ UNCHANGED <<dst, hazard_arr, cfg, mem, head, tail, garbage, garbage_size, hazard, gh>>

\* line 243: if(old_head == tail.load())
PoTail(t) ==
    /\ Running /\ pc[t] = "po_tail"
    /\ Goto(t, IF loc[t].old_head = tail THEN "po_untake" ELSE "po_rnext", loc[t])
    /\ UNCHANGED <<dst, hazard_arr, cfg, mem, head, tail, garbage, garbage_size, hazard, gh>>

\* Variant of the empty return without the old_head->taken.clear() of line 244.
PoUntakeKeep(t) ==
    /\ Running /\ pc[t] = "po_untake"
    /\ gh' = GhPopRet(gh, t, NULL, mem, garbage)
    /\ Return(t)
    /\ UNCHANGED <<dst, hazard_arr, cfg, mem, head, tail, garbage, garbage_size, hazard>>

\* lines 244-245: old_head->taken.clear(); return the empty result
PoUntake(t) ==
    /\ Running /\ pc[t] = "po_untake"
    /\ mem' = WrTaken(mem, loc[t].old_head, FALSE)
    /\ gh' = GhPopRet([gh EXCEPT !.ub = @ \cup Uaf(loc[t].old_head)],
                      t, NULL, mem, garbage)
    /\ Return(t)
    /\ UNCHANGED <<dst, hazard_arr, cfg, head, tail, garbage, garbage_size, hazard>>

\* line 250: the read of old_head->next
PoRnext(t) ==
    /\ Running /\ pc[t] = "po_rnext"
    /\ \E n \in ReadNext(loc[t].old_head) :
          Goto(t, "po_adv", [loc[t] EXCEPT !.nx = n])
    /\ gh' = [gh EXCEPT !.ub = @ \cup Uaf(loc[t].old_head)]
    /\ UNCHANGED <<dst, hazard_arr, cfg, mem, head, tail, garbage, garbage_size, hazard>>

\* line 250: head.store(old_head->next)
PoAdv(t) ==
    /\ Running /\ pc[t] = "po_adv"
    /\ head' = loc[t].nx
    /\ gh' = [gh EXCEPT !.popOrder = Append(@, -1),
                        !.strayPop = @ \/ head # loc[t].old_head
                                       \/ loc[t].old_head \in gh.unlinked,
                        !.unlinked = @ \cup {loc[t].old_head}]
    /\ Goto(t, "po_rdata", [loc[t] EXCEPT !.pidx = Len(gh.popOrder) + 1])
    /\ UNCHANGED <<dst, hazard_arr, cfg, mem, tail, garbage, garbage_size, hazard>>

\* lines 251-252: T* old_data = old_head->data.load(); res{old_data}
PoRdata(t) ==
    /\ Running /\ pc[t] = "po_rdata"
    /\ \E d \in ReadData(loc[t].old_head) :
          /\ Goto(t, "po_wdata", [loc[t] EXCEPT !.res = d])
          /\ gh' = [gh EXCEPT !.popOrder[loc[t].pidx] = d,
                              !.ub = @ \cup Uaf(loc[t].old_head)]
    /\ UNCHANGED <<dst, hazard_arr, cfg, mem, head, tail, garbage, garbage_size, hazard>>

\* line 255: old_head->data.store(nullptr)
PoWdata(t) ==
    /\ Running /\ pc[t] = "po_wdata"
    /\ mem' = WrData(mem, loc[t].old_head, NULL)
    /\ gh' = [gh EXCEPT !.ub = @ \cup Uaf(loc[t].old_head)]
    /\ Goto(t, "po_wnext", loc[t])
    /\ UNCHANGED <<dst, hazard_arr, cfg, head, tail, garbage, garbage_size, hazard>>

\* line 256: old_head->next = nullptr
PoWnext(t) ==
    /\ Running /\ pc[t] = "po_wnext"
    /\ mem' = WrNext(mem, loc[t].old_head, NULL)
    /\ gh' = [gh EXCEPT !.ub = @ \cup Uaf(loc[t].old_head)]
    /\ Goto(t, "po_haz", [loc[t] EXCEPT !.i = 0])
    /\ UNCHANGED <<dst, hazard_arr, cfg, head, tail, garbage, garbage_size, hazard>>

\* ----------------------------------------- reclamation steps, both containers
\* is_hazardous / hazard_existed: one load of hazard[i].pointer per step
Scan(t, d, yes, no) ==
    /\ IF loc[t].i >= cfg.hsize THEN Goto(t, no, [loc[t] EXCEPT !.i = 0])
       ELSE IF hazard[loc[t].i].pointer = d THEN Goto(t, yes, [loc[t] EXCEPT !.i = 0])
       ELSE Goto(t, pc[t], [loc[t] EXCEPT !.i = @ + 1])
    /\ UNCHANGED <<dst, hazard_arr, cfg, mem, head, tail, garbage, garbage_size, hazard, gh>>

\* push_to_garbage / claim_later: disposable->next = garbage.load()
LinkGarbage(t, d, to) ==
    /\ mem' = WrNext(mem, d, garbage)
    /\ gh' = [gh EXCEPT !.ub = @ \cup Uaf(d)]
    /\ Goto(t, to, loc[t])
    /\ UNCHANGED <<dst, hazard_arr, cfg, head, tail, garbage, garbage_size, hazard>>

\* garbage.compare_exchange_weak(disposable->next, disposable): a failure
\* reloads disposable->next with the current garbage pointer
CasGarbage(t, d, same, to, l) ==
    /\ \E e \in ReadNext(d) :
          IF garbage = e
          THEN /\ garbage' = d
               /\ mem' = mem
               /\ Goto(t, to, l)
               /\ gh' = [gh EXCEPT !.ub = @ \cup Uaf(d),
                                   !.deferred = @ \cup ({d} \ FreeAddrs(mem))]
          ELSE /\ garbage' = garbage
               /\ mem' = WrNext(mem, d, garbage)
               /\ Goto(t, same, loc[t])
               /\ gh' = [gh EXCEPT !.ub = @ \cup Uaf(d)]
    /\ UNCHANGED <<dst, hazard_arr, cfg, head, tail, garbage_size, hazard>>

\* delete d
Delete(t, d, to, l) ==
    /\ mem' = DelMem(mem, d)
    /\ gh' = [GhDelete(gh, mem, d) EXCEPT
                 !.hazFree = @ \/ Protecting(DelFreed(mem, d)) # {}]
    /\ Goto(t, to, l)
    /\ UNCHANGED <<dst, hazard_arr, cfg, head, tail, garbage, garbage_size, hazard>>

\* ------------------------------------------------------- queue, lines 258-266
\* line 258: is_hazardous(old_head)
PoHaz(t) ==
    /\ Running /\ pc[t] = "po_haz"
    /\ Scan(t, loc[t].old_head, "po_gb1", "po_del")

\* line 261: delete old_head
PoDel(t) ==
    /\ Running /\ pc[t] = "po_del"
    /\ Delete(t, loc[t].old_head, "po_full", loc[t])

\* line 259: push_to_garbage(old_head), line 186
PoGb1(t) ==
    /\ Running /\ pc[t] = "po_gb1"
    /\ LinkGarbage(t, loc[t].old_head, "po_gb2")

\* line 187
PoGb2(t) ==
    /\ Running /\ pc[t] = "po_gb2"
    /\ CasGarbage(t, loc[t].old_head, "po_gb2", "po_gb3", loc[t])

\* line 190: ++garbage_size
PoGb3(t) ==
    /\ Running /\ pc[t] = "po_gb3"
    /\ garbage_size' = SizeInc(garbage_size)
    /\ Goto(t, "po_full", loc[t])
    /\ UNCHANGED <<dst, hazard_arr, cfg, mem, head, tail, garbage, hazard, gh>>

\* lines 263-266: if(is_garbage_full()) collect_garbage(); return res
PoFull(t) ==
    /\ Running /\ pc[t] = "po_full"
    /\ IF garbage_size < cfg.gmax
       THEN /\ Return(t)
            /\ gh' = GhPopRet(gh, t, loc[t].res, mem, garbage)
       ELSE /\ Goto(t, "cg_xchg", loc[t])
            /\ gh' = gh
    /\ UNCHANGED <<dst, hazard_arr, cfg, mem, head, tail, garbage, garbage_size, hazard>>

\* collect_garbage, line 205: __garbage = garbage.exchange(nullptr)
CgXchg(t) ==
    /\ Running /\ pc[t] = "cg_xchg"
    /\ garbage' = NULL
    /\ Goto(t, "cg_loop", [loc[t] EXCEPT !.g = garbage])
    /\ UNCHANGED <<dst, hazard_arr, cfg, mem, head, tail, garbage_size, hazard, gh>>

\* lines 207-208: while(__garbage) { --garbage_size; and, when the list is
\* done, pop's return
CgLoop(t) ==
    /\ Running /\ pc[t] = "cg_loop"
    /\ IF loc[t].g = NULL
       THEN /\ Return(t)
            /\ gh' = GhPopRet(gh, t, loc[t].res, mem, garbage)
            /\ garbage_size' = garbage_size
       ELSE /\ Goto(t, "cg_next", loc[t])
            /\ gh' = gh
            /\ garbage_size' = SizeDec(garbage_size)
    /\ UNCHANGED <<dst, hazard_arr, cfg, mem, head, tail, garbage, hazard>>

\* lines 209-210: tmp = __garbage->next; __garbage->next = nullptr
CgNext(t) ==
    /\ Running /\ pc[t] = "cg_next"
    /\ \E n \in ReadNext(loc[t].g) :
          Goto(t, "cg_haz", [loc[t] EXCEPT !.tmp = n, !.i = 0])
    /\ mem' = WrNext(mem, loc[t].g, NULL)
    /\ gh' = [gh EXCEPT !.ub = @ \cup Uaf(loc[t].g)]
    /\ UNCHANGED <<dst, hazard_arr, cfg, head, tail, garbage, garbage_size, hazard>>

\* line 212: is_hazardous(__garbage)
CgHaz(t) ==
    /\ Running /\ pc[t] = "cg_haz"
    /\ Scan(t, loc[t].g, "cg_gb1", "cg_del")

\* lines 215, 217: delete __garbage; __garbage = tmp
CgDel(t) ==
    /\ Running /\ pc[t] = "cg_del"
    /\ Delete(t, loc[t].g, "cg_loop", [loc[t] EXCEPT !.g = loc[t].tmp, !.tmp = NULL])

\* line 213: push_to_garbage(__garbage), line 186
CgGb1(t) ==
    /\ Running /\ pc[t] = "cg_gb1"
    /\ LinkGarbage(t, loc[t].g, "cg_gb2")

\* line 187
CgGb2(t) ==
    /\ Running /\ pc[t] = "cg_gb2"
    /\ CasGarbage(t, loc[t].g, "cg_gb2", "cg_gb3", loc[t])

\* lines 190, 217: ++garbage_size; __garbage = tmp
CgGb3(t) ==
    /\ Running /\ pc[t] = "cg_gb3"
    /\ garbage_size' = SizeInc(garbage_size)
    /\ Goto(t, "cg_loop", [loc[t] EXCEPT !.g = loc[t].tmp, !.tmp = NULL])
    /\ UNCHANGED <<dst, hazard_arr, cfg, mem, head, tail, garbage, hazard, gh>>

QPush(t) == PuLoad(t) \/ PuCas(t) \/ PuLink(t) \/ PuStore(t)

QAcquire(t) == \/ PoSlot(t) \/ PoLhead(t) \/ PoShaz(t) \/ PoValid(t)
               \/ PoTas(t) \/ PoClr1(t) \/ PoClr2(t)

QUnlink(t) == \/ PoTail(t) \/ PoUntake(t) \/ PoRnext(t) \/ PoAdv(t)
              \/ PoRdata(t) \/ PoWdata(t) \/ PoWnext(t)

QRecycle(t) == PoHaz(t) \/ PoDel(t) \/ PoGb1(t) \/ PoGb2(t) \/ PoGb3(t) \/ PoFull(t)

QCollect(t) == \/ CgXchg(t) \/ CgLoop(t) \/ CgNext(t) \/ CgHaz(t)
               \/ CgDel(t) \/ CgGb1(t) \/ CgGb2(t) \/ CgGb3(t)

\* ===================================================================== stack
\* Stack_TS::Stack_TS(std::size_t _max_size), for a run of at most the given
\* numbers of calls
SStart(seq, slots, pushes, pops) ==
    /\ cfg \in [kind : {"stack"}, seq : {seq}, hsize : slots, gmax : {0},
                pushes : {pushes}, pops : {pops}]
    /\ mem = [a \in Addr |-> FreeCell]
    /\ head = NULL
    /\ tail = NULL
    /\ garbage = NULL
    /\ garbage_size = 0
    /\ hazard = HazardInit
    /\ hazard_arr = OwnArr
    /\ dst = NoObject
    /\ pc = [t \in Threads |-> "idle"]
    /\ loc = [t \in Threads |-> LocInit]
    /\ gh = GhInit

SInit(seq, slots) ==
    SStart(seq, slots, IF seq THEN SeqMaxPush ELSE SMaxPush,
                       IF seq THEN SeqMaxPop ELSE SMaxPop)

\* push, line 138: node* new_node = new node{std::move(arg)}
SPushStart(t) ==
    /\ Running /\ Idle(t) /\ cfg.kind = "stack"
    /\ cfg.seq => AllIdle
    /\ gh.npush < PushBound
    /\ \E a \in AllocChoices(mem) :
        /\ mem' = [mem EXCEPT ![a] = SNode(gh.npush + 1)]
        /\ Enter(t, "su_next", [LocInit EXCEPT !.new_node = a, !.val = gh.npush + 1])
    /\ gh' = [gh EXCEPT !.npush = @ + 1, !.drained = FALSE]
    /\ UNCHANGED <<dst, hazard_arr, cfg, head, tail, garbage, garbage_size, hazard>>

\* line 139: new_node->next = head.load()
SuNext(t) ==
    /\ Running /\ pc[t] = "su_next"
    /\ mem' = WrNext(mem, loc[t].new_node, head)
    /\ gh' = [gh EXCEPT !.ub = @ \cup Uaf(loc[t].new_node)]
    /\ Goto(t, "su_cas", loc[t])
    /\ UNCHANGED <<dst, hazard_arr, cfg, head, tail, garbage, garbage_size, hazard>>

\* line 141: head.compare_exchange_weak(new_node->next, new_node); push returns
SuCas(t) ==
    /\ Running /\ pc[t] = "su_cas"
    /\ LET a == loc[t].new_node IN
       \E e \in ReadNext(a) :
          IF head = e
          THEN /\ head' = a
               /\ mem' = mem
               /\ gh' = [gh EXCEPT
                    !.claimOrder = Append(@, loc[t].val),
                    !.ref = <<loc[t].val>> \o @,
                    !.calls = IF cfg.seq THEN Append(@, <<"push", loc[t].val>>) ELSE @,
                    !.ub = @ \cup Uaf(a)]
               /\ Return(t)
          ELSE /\ head' = head
               /\ mem' = WrNext(mem, a, head)
               /\ gh' = [gh EXCEPT !.ub = @ \cup Uaf(a)]
               /\ Goto(t, "su_cas", loc[t])
    /\ UNCHANGED <<dst, hazard_arr, cfg, tail, garbage, garbage_size, hazard>>

\* pop, line 218
SPopStart(t) ==
    /\ Running /\ Idle(t) /\ cfg.kind = "stack"
    /\ cfg.seq => AllIdle
    /\ gh.npop < PopBound
    /\ Enter(t, "so_get", [LocInit EXCEPT
                 !.solo = \A u \in Threads \ {t} : Idle(u),
                 !.onEmpty = cfg.seq /\ head = NULL])
    /\ gh' = [gh EXCEPT !.npop = @ + 1]
    /\ UNCHANGED <<dst, hazard_arr, cfg, mem, head, tail, garbage, garbage_size, hazard>>

\* lines 219-220 and get_hazard_pointer, lines 151-160: one compare_exchange
\* on hazard_arr[idx].thread_id per step; a search that finds no slot returns
\* nullptr and pop starts it again
SoGet(t) ==
    /\ Running /\ pc[t] = "so_get"
    /\ LET idx == loc[t].i IN
       IF idx >= cfg.hsize
       THEN /\ hazard' = hazard
            /\ Goto(t, "so_get", [loc[t] EXCEPT !.i = 0])
       ELSE IF hazard[idx].owner = 0
       THEN /\ hazard' = [hazard EXCEPT ![idx].owner = t]
            /\ Goto(t, "so_lhead", [loc[t] EXCEPT !.slot = idx, !.i = 0])
       ELSE /\ hazard' = hazard
            /\ Goto(t, "so_get", [loc[t] EXCEPT !.i = idx + 1])
    /\ UNCHANGED <<dst, hazard_arr, cfg, mem, head, tail, garbage, garbage_size, gh>>

\* set_hazard_pointer, line 166: node* old_head = head.load()
SoLhead(t) ==
    /\ Running /\ pc[t] = "so_lhead"
    /\ Goto(t, "so_shaz", [loc[t] EXCEPT !.old_head = head])
    /\ UNCHANGED <<dst, hazard_arr, cfg, mem, head, tail, garbage, garbage_size, hazard, gh>>

\* line 167: hp->pointer.store(old_head); line 228: while(old_head && ...
SoShaz(t) ==
    /\ Running /\ pc[t] = "so_shaz"
    /\ hazard' = [hazard EXCEPT ![loc[t].slot].pointer = loc[t].old_head]
    /\ Goto(t, IF loc[t].old_head = NULL THEN "so_clr1" ELSE "so_rnext", loc[t])
    /\ UNCHANGED <<dst, hazard_arr, cfg, mem, head, tail, garbage, garbage_size, gh>>

\* line 228: the read of old_head->next, the exchange's second argument
SoRnext(t) ==
    /\ Running /\ pc[t] = "so_rnext"
    /\ \E n \in ReadNext(loc[t].old_head) :
          Goto(t, "so_cas", [loc[t] EXCEPT !.nx = n])
    /\ gh' = GhPopDeref(gh, loc[t].old_head)
    /\ UNCHANGED <<dst, hazard_arr, cfg, mem, head, tail, garbage, garbage_size, hazard>>

\* (mutant) the exchange installs nullptr instead of old_head->next
SoCasNull(t) ==
    /\ Running /\ pc[t] = "so_cas"
    /\ IF head = loc[t].old_head
       THEN /\ head' = NULL
            /\ gh' = [gh EXCEPT !.popOrder = Append(@, -1),
                                !.ref = IF @ = <<>> THEN @ ELSE Tail(@)]
            /\ Goto(t, "so_clr1", [loc[t] EXCEPT !.pidx = Len(gh.popOrder) + 1])
       ELSE /\ head' = head
            /\ gh' = gh
            /\ Goto(t, "so_lhead", loc[t])
    /\ UNCHANGED <<dst, hazard_arr, cfg, mem, tail, garbage, garbage_size, hazard>>

\* line 228: head.compare_exchange_strong(old_head, old_head->next)
SoCas(t) ==
    /\ Running /\ pc[t] = "so_cas"
    /\ IF head = loc[t].old_head
       THEN /\ head' = loc[t].nx
            /\ gh' = [gh EXCEPT !.popOrder = Append(@, -1),
                                !.ref = IF @ = <<>> THEN @ ELSE Tail(@)]
            /\ Goto(t, "so_clr1", [loc[t] EXCEPT !.pidx = Len(gh.popOrder) + 1])
       ELSE /\ head' = head
            /\ gh' = gh
            /\ Goto(t, "so_lhead", loc[t])
    /\ UNCHANGED <<dst, hazard_arr, cfg, mem, tail, garbage, garbage_size, hazard>>

\* clear_hazard_pointer, line 174: hp->pointer.store(nullptr)
SoClr1(t) ==
    /\ Running /\ pc[t] = "so_clr1"
    /\ hazard' = [hazard EXCEPT ![loc[t].slot].pointer = NULL]
    /\ Goto(t, "so_clr2", loc[t])
    /\ UNCHANGED <<dst, hazard_arr, cfg, mem, head, tail, garbage, garbage_size, gh>>

\* line 175: hp->thread_id.store(std::thread::id{}); lines 232-233: the empty
\* result when head was null
SoClr2(t) ==
    /\ Running /\ pc[t] = "so_clr2"
    /\ hazard' = [hazard EXCEPT ![loc[t].slot].owner = 0]
    /\ IF loc[t].old_head = NULL
       THEN /\ Return(t)
            /\ gh' = GhPopRet(gh, t, NULL, mem, garbage)
       ELSE /\ Goto(t, "so_swap", loc[t])
            /\ gh' = gh
    /\ UNCHANGED <<dst, hazard_arr, cfg, mem, head, tail, garbage, garbage_size>>

\* lines 235-236: res.swap(old_head->data)
SoSwap(t) ==
    /\ Running /\ pc[t] = "so_swap"
    /\ \E d \in ReadData(loc[t].old_head) :
          /\ Goto(t, "so_wnext", [loc[t] EXCEPT !.res = d])
          /\ gh' = [GhPopDeref(gh, loc[t].old_head) EXCEPT
                       !.popOrder[loc[t].pidx] = d]
    /\ mem' = WrData(mem, loc[t].old_head, NULL)
    /\ UNCHANGED <<dst, hazard_arr, cfg, head, tail, garbage, garbage_size, hazard>>

\* line 237: old_head->next = nullptr
SoWnext(t) ==
    /\ Running /\ pc[t] = "so_wnext"
    /\ mem' = WrNext(mem, loc[t].old_head, NULL)
    /\ gh' = [gh EXCEPT !.ub = @ \cup Uaf(loc[t].old_head)]
    /\ Goto(t, "so_haz", [loc[t] EXCEPT !.i = 0])
    /\ UNCHANGED <<dst, hazard_arr, cfg, head, tail, garbage, garbage_size, hazard>>

\* line 239: hazard_existed(old_head)
SoHaz(t) ==
    /\ Running /\ pc[t] = "so_haz"
    /\ Scan(t, loc[t].old_head, "so_cl1", "so_del")

\* Variant of the delete of line 240 that goes on to line 246 without the
\* exchange of collect_garbage.
SoDelNoSweep(t) ==
    /\ Running /\ pc[t] = "so_del"
    /\ Delete(t, loc[t].old_head, "sg_loop", loc[t])

\* line 240: delete old_head
SoDel(t) ==
    /\ Running /\ pc[t] = "so_del"
    /\ Delete(t, loc[t].old_head, "sg_xchg", loc[t])

\* line 242: claim_later(old_head), line 191
SoCl1(t) ==
    /\ Running /\ pc[t] = "so_cl1"
    /\ LinkGarbage(t, loc[t].old_head, "so_cl2")

\* line 193
SoCl2(t) ==
    /\ Running /\ pc[t] = "so_cl2"
    /\ CasGarbage(t, loc[t].old_head, "so_cl2", "sg_xchg", loc[t])

\* line 244: collect_garbage(), line 200: garbage.exchange(nullptr)
SgXchg(t) ==
    /\ Running /\ pc[t] = "sg_xchg"
    /\ garbage' = NULL
    /\ Goto(t, "sg_loop", [loc[t] EXCEPT !.g = garbage])
    /\ UNCHANGED <<dst, hazard_arr, cfg, mem, head, tail, garbage_size, hazard, gh>>

\* lines 202-204: while(claimed_garbage) { tmp = claimed_garbage->next;
\* claimed_garbage->next = nullptr; and, the list done, line 246: return res
SgLoop(t) ==
    /\ Running /\ pc[t] = "sg_loop"
    /\ IF loc[t].g = NULL
       THEN /\ Return(t)
            /\ gh' = GhPopRet(gh, t, loc[t].res, mem, garbage)
            /\ mem' = mem
       ELSE /\ \E n \in ReadNext(loc[t].g) :
                 Goto(t, "sg_haz", [loc[t] EXCEPT !.tmp = n, !.i = 0])
            /\ mem' = WrNext(mem, loc[t].g, NULL)
            /\ gh' = [gh EXCEPT !.ub = @ \cup Uaf(loc[t].g)]
    /\ UNCHANGED <<dst, hazard_arr, cfg, head, tail, garbage, garbage_size, hazard>>

\* line 206: hazard_existed(claimed_garbage)
SgHaz(t) ==
    /\ Running /\ pc[t] = "sg_haz"
    /\ Scan(t, loc[t].g, "sg_cl1", "sg_del")

\* lines 209, 211: delete claimed_garbage; claimed_garbage = tmp
SgDel(t) ==
    /\ Running /\ pc[t] = "sg_del"
    /\ Delete(t, loc[t].g, "sg_loop", [loc[t] EXCEPT !.g = loc[t].tmp, !.tmp = NULL])

\* line 207: claim_later(claimed_garbage), line 191
SgCl1(t) ==
    /\ Running /\ pc[t] = "sg_cl1"
    /\ LinkGarbage(t, loc[t].g, "sg_cl2")

\* lines 193, 211: the exchange; claimed_garbage = tmp
SgCl2(t) ==
    /\ Running /\ pc[t] = "sg_cl2"
    /\ CasGarbage(t, loc[t].g, "sg_cl2", "sg_loop",
                  [loc[t] EXCEPT !.g = loc[t].tmp, !.tmp = NULL])

SPush(t) == SuNext(t) \/ SuCas(t)

SAcquire(t) == \/ SoGet(t) \/ SoLhead(t) \/ SoShaz(t) \/ SoRnext(t) \/ SoCas(t)
               \/ SoClr1(t) \/ SoClr2(t)

SRecycle(t) == SoSwap(t) \/ SoWnext(t) \/ SoHaz(t) \/ SoDel(t) \/ SoCl1(t) \/ SoCl2(t)

SCollect(t) == SgXchg(t) \/ SgLoop(t) \/ SgHaz(t) \/ SgDel(t) \/ SgCl1(t) \/ SgCl2(t)

\* ================================================================== teardown
\* Queue_TS::~Queue_TS, lines 112-116: delete head.load(); delete garbage.
\* Stack_TS::~Stack_TS, lines 85-92: delete the head list, delete the garbage
\* list.  The destructor runs once no operation is in flight.
Destroy ==
    /\ Running /\ AllIdle
    /\ LET m1 == DelMem(mem, head)
           g1 == GhDelete(gh, mem, head)
           m2 == DelMem(m1, garbage)
           g2 == GhDelete(g1, m1, garbage)
       IN  /\ mem' = m2
           /\ gh' = [g2 EXCEPT !.leak = \E a \in Addr : m2[a].live]
    /\ head' = IF cfg.kind = "stack" THEN NULL ELSE head
    /\ garbage' = IF cfg.kind = "stack" THEN NULL ELSE garbage
    /\ pc' = [t \in Threads |-> "destroyed"]
    /\ UNCHANGED <<dst, hazard_arr, cfg, tail, garbage_size, hazard, loc>>

Destroyed == \A t \in Threads : pc[t] = "destroyed"

\* ====================================================================== move
\* Stack_TS::Stack_TS(std::size_t _max_size), lines 45-48, for the second object
DstConstruct(size) ==
    /\ Running /\ cfg.kind = "stack" /\ ~dst.built /\ gh.moved = "no"
    /\ dst' = [built |-> TRUE, head |-> NULL, garbage |-> NULL,
               hazard_arr |-> DstArr, hazard_max_size |-> size]
    /\ UNCHANGED <<cfg, mem, head, tail, garbage, garbage_size, hazard,
                   hazard_arr, pc, loc, gh>>

\* Stack_TS::push on the second object with no other call on it in flight,
\* lines 138-141: the exchange succeeds at once.  One value is pushed at most.
DstPush ==
    /\ Running /\ dst.built /\ dst.head = NULL /\ gh.moved = "no"
    /\ \E a \in AllocChoices(mem) :
          /\ mem' = [mem EXCEPT ![a] = [SNode(1) EXCEPT !.next = dst.head]]
          /\ dst' = [dst EXCEPT !.head = a]
    /\ UNCHANGED <<cfg, head, tail, garbage, garbage_size, hazard, hazard_arr,
                   pc, loc, gh>>

\* Lines 53-61 and 70-78, the same in both move operations: the size and the
\* array pointer are copied, other.hazard_arr is nulled, other.head and
\* other.garbage are exchanged with nullptr, and the old head (_head_tmp) is
\* stored into both head and garbage.  No call is made on either object
\* afterwards.
Transfer(how, ub) ==
    /\ dst' = [built |-> TRUE, head |-> head, garbage |-> head,
               hazard_arr |-> hazard_arr, hazard_max_size |-> cfg.hsize]
    /\ hazard_arr' = NULL
    /\ head' = NULL
    /\ garbage' = NULL
    /\ pc' = [t \in Threads |-> "moved"]
    /\ gh' = [gh EXCEPT !.moved = how, !.pre = <<head, garbage, dst>>,
                        !.ub = @ \cup ub]
    /\ UNCHANGED <<cfg, mem, tail, garbage_size, hazard, loc>>

\* Stack_TS::Stack_TS(Stack_TS&& other), lines 51-62
MoveConstruct ==
    /\ Running /\ AllIdle /\ cfg.kind = "stack"
    /\ ~dst.built /\ gh.moved = "no"
    /\ Transfer("constructed", {})

\* (mutant) the test of line 67 is inverted
MoveAssignInverted ==
    /\ Running /\ AllIdle /\ cfg.kind = "stack"
    /\ dst.built /\ gh.moved = "no"
    /\ IF dst.hazard_max_size = 0
       THEN /\ gh' = [gh EXCEPT !.moved = "thrown", !.pre = <<head, garbage, dst>>]
            /\ UNCHANGED <<cfg, mem, head, tail, garbage, garbage_size, hazard,
                           hazard_arr, dst, pc, loc>>
       ELSE Transfer("assigned", {"no-return"})

\* Stack_TS::operator=(Stack_TS&& other), lines 65-79: the throw of line 68
\* comes before any store.  The function ends without a return statement.
MoveAssign ==
    /\ Running /\ AllIdle /\ cfg.kind = "stack"
    /\ dst.built /\ gh.moved = "no"
    /\ IF dst.hazard_max_size > 0
       THEN /\ gh' = [gh EXCEPT !.moved = "thrown", !.pre = <<head, garbage, dst>>]
            /\ UNCHANGED <<cfg, mem, head, tail, garbage, garbage_size, hazard,
                           hazard_arr, dst, pc, loc>>
       ELSE Transfer("assigned", {"no-return"})

\* ========================================================== specifications
QStep(t) == QPush(t) \/ QAcquire(t) \/ QUnlink(t) \/ QRecycle(t) \/ QCollect(t)

SStep(t) == SPush(t) \/ SAcquire(t) \/ SRecycle(t) \/ SCollect(t)

QNext == \/ \E t \in Threads : QPushStart(t) \/ QPopStart(t) \/ QStep(t)
         \/ Destroy

SNext == \/ \E t \in Threads : SPushStart(t) \/ SPopStart(t) \/ SStep(t)
         \/ Destroy

\* The queue under concurrent callers, with at least one hazard slot.
QSpec == QInit(FALSE, 1..MaxSlots) /\ [][QNext]_vars

\* The stack under concurrent callers, with at least one hazard slot.
SSpec == SInit(FALSE, 1..MaxSlots) /\ [][SNext]_vars

\* One call at a time: a call starts only when no other is in flight, and
\* then runs its steps to its return.
SeqInit == QInit(TRUE, 0..MaxSlots) \/ SInit(TRUE, 0..MaxSlots)

SeqQueueCall(t) == QPushStart(t) \/ QPopStart(t)

SeqStackCall(t) == SPushStart(t) \/ SPopStart(t)

SeqRun(t) == cfg.seq /\ IF cfg.kind = "queue" THEN QStep(t) ELSE SStep(t)

SeqNext == \/ \E t \in Threads : SeqQueueCall(t) \/ SeqStackCall(t) \/ SeqRun(t)
           \/ Destroy

SeqSpec == SeqInit /\ [][SeqNext]_vars

\* ------------------------------------------------------------ queue: claims
\* The values successful pops have returned, in the order of their head advance.
Popped == SelectSeq(gh.popOrder, LAMBDA v : v > 0)

IsPrefix(s, r) == Len(s) <= Len(r) /\ \A i \in 1..Len(s) : s[i] = r[i]

NoDup(s) == \A i, j \in 1..Len(s) : i # j => s[i] # s[j]

\* Every push has returned and a pop that ran alone has returned empty since.
Drained == AllIdle /\ gh.drained

\* No step so far had undefined behaviour (no access through a dangling or
\* null pointer, no second delete).
Defined == gh.ub = {}

\* C1: once every push has returned and the queue is drained, the values the
\* pops returned are exactly the values pushed, each once (stated of the runs
\* whose every step is defined).
QueueConservation ==
    (cfg.kind = "queue" /\ Drained /\ Defined) =>
        /\ SeqSet(Popped) = 1..gh.npush
        /\ NoDup(Popped)

\* C3: no queue node is deleted while a hazard slot holds its address.
QueueNoFreeWhileHazarded == (cfg.kind = "queue" /\ Defined) => ~gh.hazFree

\* C7: payloads are published in the order they were claimed, and the i-th pop
\* to advance head returns the i-th payload claimed.
QueueFifoConcurrent ==
    (cfg.kind = "queue" /\ Defined) =>
        /\ IsPrefix(gh.pubOrder, gh.claimOrder)
        /\ \A i \in 1..Len(gh.popOrder) :
              gh.popOrder[i] # -1 =>
                  i <= Len(gh.claimOrder) /\ gh.popOrder[i] = gh.claimOrder[i]

\* C9: when a queue pop returns (and no other thread is in the middle of
\* deferring or sweeping), the garbage list holds at most garbage_max_size
\* nodes.
QueueGarbageBound == (cfg.kind = "queue" /\ Defined) => ~gh.gbOver

\* ------------------------------------------------------------ stack: claims
\* C2: once every push has returned and the stack is drained, the values the
\* pops returned are exactly the values pushed, each once.
StackConservation ==
    (cfg.kind = "stack" /\ Drained /\ Defined) =>
        /\ SeqSet(Popped) = 1..gh.npush
        /\ NoDup(Popped)

\* C4: no stack node is deleted while a hazard slot holds its address.
StackNoFreeWhileHazarded == (cfg.kind = "stack" /\ Defined) => ~gh.hazFree

\* -------------------------------------------------------- one call at a time
\* The pop results a reference FIFO gives for a sequence of calls.
RECURSIVE FifoRets(_, _)
FifoRets(calls, q) ==
    IF calls = <<>> THEN <<>>
    ELSE IF Head(calls)[1] = "push"
         THEN FifoRets(Tail(calls), Append(q, Head(calls)[2]))
    ELSE IF q = <<>> THEN <<NULL>> \o FifoRets(Tail(calls), q)
    ELSE <<Head(q)>> \o FifoRets(Tail(calls), Tail(q))

\* The pop results a reference LIFO gives for a sequence of calls.
RECURSIVE LifoRets(_, _)
LifoRets(calls, q) ==
    IF calls = <<>> THEN <<>>
    ELSE IF Head(calls)[1] = "push"
         THEN LifoRets(Tail(calls), <<Head(calls)[2]>> \o q)
    ELSE IF q = <<>> THEN <<NULL>> \o LifoRets(Tail(calls), q)
    ELSE <<Head(q)>> \o LifoRets(Tail(calls), Tail(q))

\* C5: with one call at a time, every queue pop returns the oldest value not
\* yet returned, or the empty result when none is left.
QueueFifoSequential ==
    (cfg.seq /\ cfg.kind = "queue") => gh.rets = FifoRets(gh.calls, <<>>)

\* push 1,2,3 then four pops gave 1,2,3,empty
QueueFifoWitness ==
    cfg.seq /\ cfg.kind = "queue" /\ AllIdle /\ gh.rets = <<1, 2, 3, NULL>>

\* C6: with one call at a time, every stack pop returns the newest value not
\* yet returned, or the empty result when none is left.
StackLifoSequential ==
    (cfg.seq /\ cfg.kind = "stack") => gh.rets = LifoRets(gh.calls, <<>>)

\* push 1,2,3 then four pops gave 3,2,1,empty
StackLifoWitness ==
    cfg.seq /\ cfg.kind = "stack" /\ AllIdle /\ gh.rets = <<3, 2, 1, NULL>>

\* A pop that started alone on a container holding no value takes fewer than
\* StepCap steps, has a step to take until it returns, and returns empty.
EmptyPopReturns ==
    /\ gh.emptyRet
    /\ \A t \in Threads :
          loc[t].onEmpty =>
              /\ loc[t].steps < StepCap
              /\ pc[t] # "crashed"
              /\ ENABLED SeqRun(t)

Unreturned == (1..gh.npush) \ SeqSet(Popped)

\* C10: the destructor, run once every call has returned, frees every node the
\* container still owns, and every unreturned payload, exactly once.
Teardown ==
    (Destroyed /\ Defined) =>
        /\ ~gh.leak
        /\ ~gh.dblFree
        /\ Unreturned \subseteq gh.payFreed

\* ------------------------------------------------------------------ progress
\* Thread t is inside a call.
InOp(t) == pc[t] \notin {"idle", "crashed", "destroyed", "moved"}

Busy == \E t \in Threads : InOp(t)

\* The number of calls that have returned.
Completed == gh.npush + gh.npop
             - Cardinality({t \in Threads : pc[t] \notin {"idle", "destroyed", "moved"}})

\* The queue when any thread may be suspended for good at any point of its
\* call: steps keep being taken while one is possible, by whichever threads
\* still run.
QLockFreeSpec == QSpec /\ WF_vars(\E t \in Threads : QStep(t))

\* C11: while some thread is inside a queue call and steps keep being taken,
\* a call returns, whichever threads are suspended (stated of the runs whose
\* every step is defined).
QueueLockFree ==
    \A n \in 0..(QMaxPush + QMaxPop) :
        (Busy /\ Completed = n) ~> (Completed > n \/ ~Defined)

\* The queue when every thread keeps being scheduled.
QFairSpec ==
    /\ QStart(FALSE, 1..MaxSlots, QMaxPush, QFairMaxPop)
    /\ [][QNext]_vars
    /\ \A t \in Threads : WF_vars(QStep(t))

\* C12: with finitely many calls and every thread scheduled again and again,
\* every queue call returns.
QueueTermination == \A t \in Threads : InOp(t) ~> Idle(t)

\* The stack when every thread keeps being scheduled.
SFairSpec ==
    /\ SStart(FALSE, 1..MaxSlots, SFairMaxPush, SMaxPop)
    /\ [][SNext]_vars
    /\ \A t \in Threads : WF_vars(SStep(t))

\* C13: with finitely many calls, at least one hazard slot and every thread
\* scheduled again and again, every stack call returns.
StackTermination == \A t \in Threads : InOp(t) ~> Idle(t)

\* ------------------------------------------------------- undersized hazard table
\* Thread t is between acquiring hazard slot s and releasing it.
HoldsSlot(t, s) ==
    /\ pc[t] \in {"po_lhead", "po_shaz", "po_valid", "po_tas", "po_clr1", "po_clr2",
                  "so_lhead", "so_shaz", "so_rnext", "so_cas", "so_clr1", "so_clr2"}
    /\ loc[t].slot = s

SlotExclusive ==
    \A s \in Slots : \A t, u \in Threads :
        (HoldsSlot(t, s) /\ HoldsSlot(u, s)) => t = u

\* The hazard table has fewer slots than there are threads that may pop.
Undersized == ~cfg.seq /\ cfg.hsize < NumThreads

MoveNext == \/ \E t \in Threads : SPushStart(t) \/ SPopStart(t) \/ SStep(t)
            \/ \E size \in 0..MaxSlots : DstConstruct(size)
            \/ DstPush
            \/ MoveConstruct
            \/ MoveAssign

MoveSpec == SStart(FALSE, 1..MaxSlots, MovMaxPush, MovMaxPop) /\ [][MoveNext]_vars

\* The nodes on the list that starts at pointer p.
Nodes(p) == DelFreed(mem, p)

\* C15: after a move the destination's head and garbage are the source's
\* former head and garbage, the source's are null, and the destination's two
\* lists share no node.
MoveTransfer ==
    gh.moved \in {"constructed", "assigned"} =>
        /\ dst.head = gh.pre[1]
        /\ dst.garbage = gh.pre[2]
        /\ head = NULL /\ garbage = NULL
        /\ Nodes(dst.head) \cap Nodes(dst.garbage) = {}

\* C16: a move-assignment into a stack constructed with a non-zero hazard
\* table size throws, and changes neither object.
MoveAssignMisuse ==
    [][(gh.moved = "no" /\ gh'.moved # "no" /\ dst.built /\ dst.hazard_max_size > 0)
         => /\ gh'.moved = "thrown"
            /\ UNCHANGED <<cfg, mem, head, tail, garbage, garbage_size, hazard,
                           hazard_arr, dst>>]_vars

\* A move-assignment from a stack that holds a value into an initialized
\* stack that holds a value has thrown.
MoveAssignMisuseWitness ==
    /\ gh.moved = "thrown" /\ dst.hazard_max_size > 0
    /\ dst.head # NULL /\ head # NULL

\* ------------------------------------------------------------- memory safety
\* C17: a stack pop reads old_head->next and old_head->data only of a node
\* that has not been deleted.
StackPopNoUseAfterFree == cfg.kind = "stack" => ~gh.popUaf

\* C18: a queue push claims the payload of old_tail, writes old_tail->next and
\* stores the new tail only while old_tail is on the live list.
QueuePushLiveTail == (cfg.kind = "queue" /\ Defined) => ~gh.stalePush

\* C19: head is not null, the node tail refers to is reachable from head, and
\* every node reachable from head is allocated and not on the garbage list.
QueueStructure ==
    (cfg.kind = "queue" /\ Defined /\ ~Destroyed) =>
        /\ head # NULL
        /\ tail \in SeqSet(Chain(mem, head, {}))
        /\ \A a \in SeqSet(Chain(mem, head, {})) : mem[a].live
        /\ SeqSet(Chain(mem, head, {})) \cap SeqSet(Chain(mem, garbage, {})) = {}

\* C20: the node tail refers to has a null payload.
QueueTailUnclaimed ==
    (cfg.kind = "queue" /\ Defined /\ ~Destroyed) =>
        (mem[tail].live /\ mem[tail].data = NULL)

\* ---------------------------------------------------------------- stack head
\* C21: head refers to the node of the value pushed last (in the order of the
\* successful exchanges on head) among those not yet popped, or is null when
\* there is none; and no pop takes the payload out of a node whose payload
\* was taken out before.
StackHead ==
    (cfg.kind = "stack" /\ Defined /\ ~Destroyed /\ gh.moved = "no") =>
        /\ IF gh.ref = <<>> THEN head = NULL
           ELSE head # NULL /\ mem[head].live /\ mem[head].data = Head(gh.ref)
        /\ \A i \in 1..Len(gh.popOrder) : gh.popOrder[i] # NULL

\* ---------------------------------------------------------- queue node life
\* C22: between its allocation and its delete a queue node's payload is
\* claimed by at most one push (which alone then sets its next as a link), and
\* no step reads or writes a node that has been deleted.
QueueNodeLifecycle ==
    cfg.kind = "queue" => (~gh.reclaimed /\ "uaf" \notin gh.ub)

\* ------------------------------------------------------ queue pop exclusivity
\* Thread t won the test-and-set on node a's taken flag and has neither
\* cleared the flag nor moved head past the node yet.
HoldsTaken(t, a) ==
    /\ pc[t] \in {"po_clr1", "po_clr2", "po_tail", "po_untake", "po_rnext", "po_adv"}
    /\ ~loc[t].taken
    /\ loc[t].old_head = a

\* C23: at most one thread holds a node's taken flag; the flag is won only on
\* the current head; head is moved past a node only while it is the head, and
\* once in the node's lifetime.
QueuePopExclusive ==
    cfg.kind = "queue" =>
        /\ \A a \in Addr : \A t, u \in Threads :
              (HoldsTaken(t, a) /\ HoldsTaken(u, a)) => t = u
        /\ \A a \in Addr : \A t \in Threads : HoldsTaken(t, a) => head = a
        /\ ~gh.strayPop

\* A pop has moved head past a node on whose taken flag another pop has just
\* lost the test-and-set.
QueuePopExclusiveWitness ==
    /\ cfg.kind = "queue" /\ Defined
    /\ \E t, u \in Threads :
          /\ t # u
          /\ pc[t] = "po_rdata"
          /\ pc[u] = "po_clr1" /\ loc[u].taken
          /\ loc[u].old_head = loc[t].old_head

\* ------------------------------------------------------------ garbage sweeps
\* Thread t is inside collect_garbage with a detached list.
Sweeping(t) == pc[t] \in {"cg_loop", "cg_next", "cg_haz", "cg_del", "cg_gb1",
                          "cg_gb2", "cg_gb3", "sg_loop", "sg_haz", "sg_del",
                          "sg_cl1", "sg_cl2"}

\* The nodes sweep t holds: the one it is visiting and the rest of its list.
SweepHeld(t) == IF Sweeping(t) THEN Nodes(loc[t].g) \cup Nodes(loc[t].tmp) ELSE {}

\* Every node placed on the garbage list and not freed since is on the list
\* or held by a sweep in progress.
GarbageKept ==
    \A a \in gh.deferred :
        a \in Nodes(garbage) \/ \E t \in Threads : a \in SweepHeld(t)

\* The node a sweep is about to delete has not been freed before.
SweepDeletesOnce ==
    \A t \in Threads : pc[t] \in {"cg_del", "sg_del"} => mem[loc[t].g].live

\* C24: every node placed on the garbage list and not yet freed is on the
\* list or held by a sweep in progress, and no sweep deletes a node that was
\* already deleted.
GarbageSweep == SweepDeletesOnce /\ (~Destroyed => GarbageKept)

\* ------------------------------------------------------- stack eager sweep
\* Stack_TS::pop of thread t returns in this step.
StackPopReturns(t) ==
    /\ cfg.kind = "stack"
    /\ pc[t] \in {"so_clr2", "sg_loop"}
    /\ pc'[t] = "idle"

\* The walk of collect_garbage is entered only through the exchange of line
\* 200, and re-entered only by its own loop.
SweepEntered(t) ==
    (cfg.kind = "stack" /\ pc'[t] = "sg_loop" /\ pc[t] # "sg_loop")
        => pc[t] \in {"sg_xchg", "sg_del", "sg_cl2"}

\* A single-threaded stack has nothing deferred.
StackGarbageEmptySequential ==
    (cfg.kind = "stack" /\ cfg.seq /\ Defined) => garbage = NULL

\* Every Stack_TS::pop, with a value or empty, returns from a finished sweep.
StackPopAlwaysSweeps ==
    /\ [][\A t \in Threads : SweepEntered(t)
                              /\ (StackPopReturns(t) => pc[t] = "sg_loop")]_vars
    /\ []StackGarbageEmptySequential

\* C25: a Stack_TS::pop that unlinked a node returns only after a full sweep
\* of the garbage list, a pop that found head null returns without sweeping,
\* and a single-threaded stack's garbage list is empty after every pop.
StackEagerSweep ==
    /\ [][\A t \in Threads :
             /\ SweepEntered(t)
             /\ StackPopReturns(t) =>
                   IF pc[t] = "so_clr2"
                   THEN loc[t].old_head = NULL
                   ELSE pc[t] = "sg_loop" /\ loc[t].g = NULL]_vars
    /\ []StackGarbageEmptySequential

\* A single-threaded stack has returned a value from a pop and an empty pop
\* is at its return (line 233) with the hazard slot released last.
StackEagerSweepWitness ==
    /\ cfg.kind = "stack" /\ cfg.seq /\ Defined
    /\ \E v \in 1..SeqMaxPush : v \in SeqSet(gh.rets)
    /\ \E t \in Threads : pc[t] = "so_clr2" /\ loc[t].old_head = NULL

\* ------------------------------------------------------------ hazard slots
\* Queue and stack side by side, under concurrent callers.
HazardNext == QNext \/ SNext

HazardSpec ==
    /\ \/ QStart(FALSE, 1..MaxSlots, QMaxPush, QMaxPop)
       \/ SStart(FALSE, 1..MaxSlots, SFairMaxPush, SMaxPop)
    /\ [][HazardNext]_vars

\* Slot s of the table is taken (queue: flag set; stack: a thread id stored).
SlotTaken(s) == s < cfg.hsize /\ hazard[s].owner # 0

\* The slots thread t owns: in the stack the slot names its thread, in the
\* queue it is the slot whose flag t set and has not cleared.
SlotsOf(t) ==
    {s \in Slots : /\ SlotTaken(s)
                   /\ IF cfg.kind = "stack" THEN hazard[s].owner = t
                                            ELSE HoldsSlot(t, s)}

\* Thread t is not inside pop: between calls or inside push.
OutsidePop(t) == pc[t] \in {"idle", "pu_load", "pu_cas", "pu_link", "pu_store",
                            "su_next", "su_cas"}

\* C26: a thread owns at most one hazard slot, only between acquiring it and
\* the release that follows the claim attempt, every taken slot has such an
\* owner, and with no pop in flight every slot of the table is free.
HazardReleased ==
    Running =>
        /\ \A s \in Slots : SlotTaken(s) => \E t \in Threads : s \in SlotsOf(t)
        /\ \A t \in Threads :
              /\ Cardinality(SlotsOf(t)) <= 1
              /\ \A s \in SlotsOf(t) : HoldsSlot(t, s)
              /\ OutsidePop(t) => SlotsOf(t) = {}
        /\ (\A t \in Threads : OutsidePop(t)) => \A s \in Slots : ~SlotTaken(s)

\* On a one-slot table two pops and a push have been called and have
\* returned, no call is in flight and the slot is free.
HazardReleasedWitness ==
    /\ Running /\ AllIdle /\ cfg.hsize = 1
    /\ gh.npop >= 2 /\ gh.npush >= 1
    /\ \A s \in Slots : ~SlotTaken(s)

\* The threads that own slot s.
OwnersOf(s) == {t \in Threads : s \in SlotsOf(t)}

\* The step changes the protected pointer of slot s.
PointerWritten(s) == hazard'[s].pointer # hazard[s].pointer

\* C27: every hazard slot is owned by at most one thread, a slot's protected
\* pointer is written only by a step of the thread that owns the slot, and
\* the protected pointer of a slot nobody owns is null.
HazardTable ==
    /\ [](/\ SlotExclusive
          /\ \A s \in Slots : Cardinality(OwnersOf(s)) <= 1
          /\ \A s \in Slots : ~SlotTaken(s) => hazard[s].pointer = NULL)
    /\ [][\A s \in Slots :
             PointerWritten(s) =>
                 \E t \in OwnersOf(s) : HoldsSlot(t, s) /\ pc'[t] # pc[t]]_vars

\* One thread owns the only slot and has published a node in it while the
\* other thread is looking for a free slot.
HazardTableWitness ==
    /\ cfg.hsize = 1 /\ hazard[0].pointer # NULL
    /\ \E t, u \in Threads :
          /\ t # u
          /\ OwnersOf(0) = {t}
          /\ pc[u] \in {"po_slot", "so_get"}

\* ---------------------------------------------------- queue garbage counter
\* No thread is inside push_to_garbage, is_garbage_full or collect_garbage.
GarbageQuiet == \A t \in Threads : ~Reclaiming(t)

\* C28: garbage_size never wraps below zero (it counts at most the nodes
\* that exist), and whenever no thread is inside push_to_garbage or
\* collect_garbage it equals the number of nodes on the garbage list.
QueueGarbageCounter ==
    (cfg.kind = "queue" /\ Running) =>
        /\ garbage_size <= NumAddr
        /\ GarbageQuiet => garbage_size = ListLen(mem, garbage)

\* ------------------------------------------------------------- empty pop
\* The part of pop an empty result comes out of: queue lines 228-245, stack
\* lines 218-233.
EmptyPath == {"po_slot", "po_lhead", "po_shaz", "po_valid", "po_tas", "po_clr1",
              "po_clr2", "po_tail", "po_untake",
              "so_get", "so_lhead", "so_shaz", "so_rnext", "so_cas", "so_clr1",
              "so_clr2"}

\* The step is a step of thread t: it moves t or changes t's locals.
StepOf(t) ==
    \/ pc'[t] # pc[t]
    \/ [loc'[t] EXCEPT !.solo = FALSE] # [loc[t] EXCEPT !.solo = FALSE]

\* Pop of thread t returns the empty result in this step.
EmptyReturn(t) ==
    /\ pc'[t] = "idle"
    /\ \/ pc[t] = "po_untake"
       \/ pc[t] = "so_clr2" /\ loc[t].old_head = NULL

\* A step on the empty path writes no shared variable but the hazard table
\* and the taken flag of the node it read as head; the one exception, the
\* successful compare-exchange of stack line 228, leaves the path with a
\* node in hand.
EmptyPathFrame(t) ==
    (StepOf(t) /\ pc[t] \in EmptyPath) =>
        /\ tail' = tail /\ garbage' = garbage /\ garbage_size' = garbage_size
        /\ \A a \in Addr :
              \/ mem'[a] = mem[a]
              \/ a = loc[t].old_head /\ mem'[a] = [mem[a] EXCEPT !.taken = mem'[a].taken]
        /\ head' # head =>
              pc[t] = "so_cas" /\ pc'[t] = "so_clr1" /\ loc'[t].old_head # NULL
        /\ (pc[t] = "so_clr1" /\ pc'[t] = "so_clr2") =>
              loc'[t].old_head = loc[t].old_head

\* A call that has left the empty path does not come back to it.
EmptyPathLeft(t) ==
    (StepOf(t) /\ pc[t] \notin EmptyPath \cup {"idle"}) => pc'[t] \notin EmptyPath

\* What an empty result leaves behind: the queue's head is the node the pop
\* held, with its taken flag clear, and the slot the pop used is free or
\* taken by another thread; the stack's slot is back in its unowned state.
EmptyReturnState(t) ==
    EmptyReturn(t) =>
        IF cfg.kind = "queue"
        THEN /\ head' = loc[t].old_head /\ head' = head
             /\ ~mem'[head'].taken
             /\ \/ ~SlotTaken(loc[t].slot)
                \/ \E u \in Threads \ {t} : HoldsSlot(u, loc[t].slot)
        ELSE /\ head' = head
             /\ hazard'[loc[t].slot] = [owner |-> 0, pointer |-> NULL]
             /\ \A s \in Slots : hazard'[s].owner # t

\* The queue's emptiness test of line 243 succeeds only with head = tail.
EmptyTest(t) ==
    (pc[t] = "po_tail" /\ pc'[t] = "po_untake") => head = tail

====
